---- MODULE Spec2Model ----
(***************************************************************************)
(* Risky Journals Sampler (src/risky_journals.py): analyze() scores a      *)
(* table of journal entries with nine boolean rules, ranks it, and         *)
(* write_outputs() filters the flagged rows and aggregates a report.       *)
(*                                                                         *)
(* Conventions of the model.                                               *)
(*  - a string is a sequence of one-character strings;                     *)
(*  - an optional value is a sequence of length <= 1: <<>> is the missing  *)
(*    value (NaN / NaT / None), <<v>> is the value v;                      *)
(*  - an amount is an integer number of thousandths (1.004 is 1004), so    *)
(*    that rounding to two decimals is an operation and not the identity;  *)
(*  - a timestamp is [day, hour] of January 2024 (2024-01-01 is a Monday); *)
(*  - pandas semantics are those of pandas 1.5 .. 2.x.                     *)
(***************************************************************************)
EXTENDS Integers, Sequences, FiniteSets, TLC

VARIABLES
    df,          \* the input table: [columns, rows]
    d,           \* the table returned by analyze (<<>> before it ran)
    pc,          \* "analyze", "write", "done"
    risky,       \* write_outputs: the flagged rows, in table order
    total,       \* write_outputs: rows scanned
    flagged,     \* write_outputs: rows flagged
    top_rules,   \* write_outputs: sequence of <<rule name, count>>
    by_user,     \* write_outputs: sequence of <<user, summed score>>
    by_account   \* write_outputs: sequence of <<account, summed score>>

vars == <<df, d, pc, risky, total, flagged, top_rules, by_user, by_account>>

\* ---------------------------------------------------------------- values

Null == <<>>
Some(x) == <<x>>
IsNull(o) == o = <<>>
Val(o) == o[1]

Abs(x) == IF x < 0 THEN -x ELSE x

\* A sequence given by a rule, with its elements computed once.
Seq1(f) == f \o <<>>

\* s sorted by Before, elements that neither sorts before the other kept in
\* their order in s (a stable sort): each element goes to the position that
\* counts the elements placed ahead of it.
stable_sort(s, Before(_, _)) ==
    LET n   == Len(s)
        pos == Seq1([i \in 1..n |->
                   1 + Cardinality({j \in 1..n :
                           \/ Before(s[j], s[i])
                           \/ j < i /\ ~Before(s[i], s[j])})])
    IN  [p \in 1..n |-> s[CHOOSE i \in 1..n : pos[i] = p]]

\* ---------------------------------------------------------------- strings

\* The characters the model's strings use, in code point order.
Chars ==
    << " ", "-", ".", "0", "1", "2", "3", "4", "5", "6", "7", "8", "9",
       "A", "B", "C", "D", "E", "F", "G", "H", "I", "J", "K", "L", "M",
       "N", "O", "P", "Q", "R", "S", "T", "U", "V", "W", "X", "Y", "Z",
       "_", "a", "b", "c", "d", "e", "f", "g", "h", "i", "j", "k", "l",
       "m", "n", "o", "p", "q", "r", "s", "t", "u", "v", "w", "x", "y",
       "z", "|" >>

Ord(c) == CHOOSE i \in 1..Len(Chars) : Chars[i] = c

UpperLetters ==
    << "A", "B", "C", "D", "E", "F", "G", "H", "I", "J", "K", "L", "M",
       "N", "O", "P", "Q", "R", "S", "T", "U", "V", "W", "X", "Y", "Z" >>
LowerLetters ==
    << "a", "b", "c", "d", "e", "f", "g", "h", "i", "j", "k", "l", "m",
       "n", "o", "p", "q", "r", "s", "t", "u", "v", "w", "x", "y", "z" >>

LowerChar(c) ==
    IF \E i \in 1..Len(UpperLetters) : UpperLetters[i] = c
    THEN LowerLetters[CHOOSE i \in 1..Len(UpperLetters) : UpperLetters[i] = c]
    ELSE c

UpperChar(c) ==
    IF \E i \in 1..Len(LowerLetters) : LowerLetters[i] = c
    THEN UpperLetters[CHOOSE i \in 1..Len(LowerLetters) : LowerLetters[i] = c]
    ELSE c

\* str.lower / str.upper
Lower(s) == [i \in 1..Len(s) |-> LowerChar(s[i])]
Upper(s) == [i \in 1..Len(s) |-> UpperChar(s[i])]

\* `term in s` for Python strings
Contains(s, term) ==
    \E i \in 1..(Len(s) - Len(term) + 1) : SubSeq(s, i, i + Len(term) - 1) = term

\* s < t for Python strings (lexicographic by code point)
StrLess(s, t) ==
    \E k \in 0..Len(s) :
        /\ k <= Len(t)
        /\ \A i \in 1..k : s[i] = t[i]
        /\ \/ k = Len(s) /\ k < Len(t)
           \/ k < Len(s) /\ k < Len(t) /\ Ord(s[k + 1]) < Ord(t[k + 1])

DigitChars == << "0", "1", "2", "3", "4", "5", "6", "7", "8", "9" >>

\* str(n) for a natural number n
RECURSIVE NatStr(_)
NatStr(n) ==
    IF n < 10 THEN << DigitChars[n + 1] >>
    ELSE NatStr(n \div 10) \o << DigitChars[(n % 10) + 1] >>

NaNStr == << "n", "a", "n" >>
NaTStr == << "N", "a", "T" >>
Bar == << "|" >>

\* ---------------------------------------------------------------- config

RISKY_MEMO_TERMS ==
    << << "m", "a", "n", "u", "a", "l", " ", "o", "v", "e", "r", "r", "i", "d", "e" >>,
       << "a", "d", "j", "u", "s", "t", "m", "e", "n", "t" >>,
       << "a", "d", "j" >>,
       << "s", "u", "s", "p", "e", "n", "s", "e" >>,
       << "t", "o", "p", "-", "s", "i", "d", "e" >>,
       << "p", "l", "u", "g" >>,
       << "w", "r", "i", "t", "e", "-", "o", "f", "f" >>,
       << "r", "e", "c", "l", "a", "s", "s" >>,
       << "m", "i", "s", "c" >> >>

WEIGHTS ==
    [ round_100 |-> 1, round_1000 |-> 2, cents_zero |-> 1, weekend |-> 1,
      late_night |-> 2, risky_memo |-> 2, manual_source |-> 2, duplicate |-> 3,
      top1pct |-> 2 ]

\* the column list of analyze, in its order
cols ==
    << "round_100", "round_1000", "cents_zero", "weekend", "late_night",
       "risky_memo", "manual_source", "duplicate", "top1pct" >>

\* ---------------------------------------------------------------- parsing

\* An amount in thousandths from a whole number of units.
Units(n) == n * 1000

\* pd.to_numeric(cell, errors="coerce"): a cell is missing, a number, or text
\* that is no number; only a number survives.
to_numeric(cell) ==
    IF IsNull(cell) \/ ~Val(cell).num THEN Null ELSE Some(Val(cell).v)

\* pd.to_datetime(cell, errors="coerce")
to_datetime(cell) ==
    IF IsNull(cell) \/ ~Val(cell).ok THEN Null
    ELSE Some([day |-> Val(cell).day, hour |-> Val(cell).hour])

\* Series.astype(str): the missing value becomes the text "nan"
astype_str(cell) == IF IsNull(cell) THEN Some(NaNStr) ELSE cell

\* Series.fillna("")
fillna_empty(cell) == IF IsNull(cell) THEN Some(<<>>) ELSE cell

\* Series.replace("", "SYSTEM")
SYSTEM == << "S", "Y", "S", "T", "E", "M" >>
replace_empty_SYSTEM(s) == IF s = <<>> THEN SYSTEM ELSE s

\* the loop over memo, user, account, source: an absent column is all ""
TextColumns == {"memo", "user", "account", "source"}
text_column(table, raw, col) ==
    LET cell == IF col \in table.columns THEN raw[col] ELSE Some(<<>>)
    IN  Val(fillna_empty(astype_str(cell)))

\* one row after "Ensure types / columns exist" and the SYSTEM default
Normalize(table, raw) ==
    [ entry_id |-> raw.entry_id,
      amount   |-> to_numeric(raw.amount),
      date     |-> to_datetime(raw.date),
      memo     |-> text_column(table, raw, "memo"),
      user     |-> text_column(table, raw, "user"),
      account  |-> text_column(table, raw, "account"),
      source   |-> replace_empty_SYSTEM(text_column(table, raw, "source")) ]

\* ---------------------------------------------------------------- rules

\* a variant that drops the fraction first: abs(int(x)) % m == 0
_is_round_multiple_int(x, m) ==
    IF IsNull(x) THEN FALSE ELSE ((Abs(Val(x)) \div 1000) % m) = 0

\* abs(float(x)) % m == 0; NaN % m is NaN, which is not 0
_is_round_multiple(x, m) ==
    IF IsNull(x) THEN FALSE ELSE (Abs(Val(x)) % Units(m)) = 0

\* np.round(v, 2) of a non-negative number of thousandths, in hundredths
\* (round half to even; the model's amounts have no half-way case).
round2_nonneg(t) ==
    LET q == t \div 10
        r == t % 10
    IN  IF r < 5 THEN q
        ELSE IF r > 5 THEN q + 1
        ELSE IF q % 2 = 0 THEN q ELSE q + 1

\* np.round((np.abs(amount) * 100) % 100, 2) == 0.0
cents_zero(x) ==
    IF IsNull(x) THEN FALSE
    ELSE round2_nonneg((Abs(Val(x)) * 100) % Units(100)) = 0

\* Timestamp.weekday() within January 2024: Monday is 0
weekday(ts) == (ts.day - 1) % 7

weekend(date) == IF IsNull(date) THEN FALSE ELSE weekday(Val(date)) \in {5, 6}

late_night(date) ==
    IF IsNull(date) THEN FALSE ELSE Val(date).hour \in {22, 23, 0, 1, 2, 3, 4, 5}

risky_memo(memo) ==
    LET lower_memo == Lower(memo)
    IN  \E i \in 1..Len(RISKY_MEMO_TERMS) : Contains(lower_memo, RISKY_MEMO_TERMS[i])

manual_source(source) == Upper(source) # SYSTEM

\* ---------------------------------------------------------------- outlier

\* len(d) >= 100 selects the 0.99 quantile
SmallBatchLimit == 100

\* the values in ascending order
SortAsc(s) == stable_sort(s, LAMBDA a, b : a < b)

\* Series.abs(): the missing value stays missing
abs_amt(x) == IF IsNull(x) THEN Null ELSE Some(Abs(Val(x)))

\* the values of a column that are not missing, in row order
dropna(column) ==
    LET Present(x) == ~IsNull(x)
        kept == SelectSeq(column, Present)
    IN  [i \in 1..Len(kept) |-> Val(kept[i])]

\* Series.quantile(qpct / 100), linear interpolation over the values that are not
\* missing: rank = q * (m - 1), between the order statistics at its floor and at
\* its ceiling.  The result is 100 times the quantile (an exact integer), or
\* missing when no value is present.
quantile(column, qpct) ==
    LET s   == Seq1(SortAsc(dropna(column)))
        m   == Len(s)
        pos == qpct * (m - 1)
        lo  == pos \div 100
        fr  == pos % 100
        hi  == IF fr = 0 THEN lo ELSE lo + 1
    IN  IF m = 0 THEN Null
        ELSE Some(100 * s[lo + 1] + (s[hi + 1] - s[lo + 1]) * fr)

\* a variant whose large-batch branch starts one row late: len(d) > 100
cutoff_strict(rows) ==
    LET column == [i \in 1..Len(rows) |-> abs_amt(rows[i].amount)]
    IN  IF Len(rows) > SmallBatchLimit THEN quantile(column, 99)
        ELSE quantile(column, 95)

\* abs_amt.quantile(0.99) if len(d) >= 100 else abs_amt.quantile(0.95)
cutoff(rows) ==
    LET column == [i \in 1..Len(rows) |-> abs_amt(rows[i].amount)]
    IN  IF Len(rows) >= SmallBatchLimit THEN quantile(column, 99)
        ELSE quantile(column, 95)

\* a variant that compares a missing amount as 0: abs_amt.fillna(0) >= cutoff
top1pct_fillna(x, cut) ==
    IF IsNull(cut) THEN FALSE
    ELSE 100 * (IF IsNull(x) THEN 0 ELSE Val(abs_amt(x))) >= Val(cut)

\* abs_amt >= cutoff: a comparison with a missing value is False
top1pct(x, cut) ==
    IF IsNull(x) \/ IsNull(cut) THEN FALSE
    ELSE 100 * Val(abs_amt(x)) >= Val(cut)

\* ---------------------------------------------------------------- duplicate

\* str(date.date()) for a day of January 2024, "NaT" for the missing date
date_str(date) ==
    IF IsNull(date) THEN NaTStr
    ELSE << "2", "0", "2", "4", "-", "0", "1", "-" >>
         \o << DigitChars[(Val(date).day \div 10) + 1], DigitChars[(Val(date).day % 10) + 1] >>

\* Series.round(2) of an amount in thousandths: the amount in hundredths
round2(v) == IF v < 0 THEN -round2_nonneg(-v) ELSE round2_nonneg(v)

\* str(float) of an amount of c hundredths; the sign of v, the amount rounded,
\* is kept when c is 0 (the float -0.0)
float_str(v, c) ==
    LET a == Abs(c)
        f == a % 100
    IN  (IF v < 0 THEN << "-" >> ELSE <<>>)
        \o NatStr(a \div 100) \o << "." >>
        \o (IF f % 10 = 0 THEN << DigitChars[(f \div 10) + 1] >>
            ELSE << DigitChars[(f \div 10) + 1], DigitChars[(f % 10) + 1] >>)

\* d["amount"].round(2).astype(str)
amount_str(x) ==
    IF IsNull(x) THEN NaNStr ELSE float_str(Val(x), round2(Val(x)))

\* the duplicate key of a row
key(row) ==
    date_str(row.date) \o Bar \o row.account \o Bar
    \o amount_str(row.amount) \o Bar \o Lower(row.memo)

\* key.value_counts()[k]
value_count(keys, k) == Cardinality({i \in 1..Len(keys) : keys[i] = k})

\* key.map(counts).fillna(0).astype(int) > 1
duplicate(keys, i) == value_count(keys, keys[i]) > 1

\* ---------------------------------------------------------------- score

\* d[cols].mul(weights, axis=1).sum(axis=1).astype(int), over the first n columns
RECURSIVE weighted_sum(_, _)
weighted_sum(row, n) ==
    IF n = 0 THEN 0
    ELSE weighted_sum(row, n - 1)
         + (IF row[cols[n]] THEN WEIGHTS[cols[n]] ELSE 0)

\* a variant that counts the rules that fired instead of weighing them
risk_score_count(row) ==
    LET Hit(c) == row[c]
    IN  Len(SelectSeq(cols, Hit))

\* (d[cols].astype(int) * weights).sum(axis=1)
risk_score(row) == weighted_sum(row, Len(cols))

\* ",".join(names): the names with a "," between neighbours
RECURSIVE join(_)
join(names) ==
    IF names = <<>> THEN <<>>
    ELSE IF Len(names) = 1 THEN names
    ELSE join(SubSeq(names, 1, Len(names) - 1)) \o << ",", names[Len(names)] >>

\* a variant that walks the rule columns from the last to the first
reasons_reversed(row) ==
    LET Hit(c) == row[c]
        rev == [i \in 1..Len(cols) |-> cols[Len(cols) + 1 - i]]
    IN  join(SelectSeq(rev, Hit))

\* ",".join([c for c in cols if bool(row[c])])
reasons(row) ==
    LET Hit(c) == row[c]
    IN  join(SelectSeq(cols, Hit))

\* d["amount"].abs().fillna(0)
abs_amount(x) == IF IsNull(x) THEN 0 ELSE Abs(Val(x))

\* ---------------------------------------------------------------- rank

\* a sorts strictly before b: risk_score descending, then abs_amount descending
SortsBefore(a, b) ==
    \/ a.risk_score > b.risk_score
    \/ a.risk_score = b.risk_score /\ a.abs_amount > b.abs_amount

\* a variant that sorts ascending and reverses, which turns equal rows around
sort_values_reversed(rows) ==
    LET Turned(a, b) ==
            \/ SortsBefore(a, b)
            \/ ~SortsBefore(b, a) /\ a.entry_id > b.entry_id
    IN  stable_sort(rows, Turned)

\* sort_values(["risk_score", "abs_amount"], ascending=[False, False]): a sort
\* on two columns is pandas' lexsort, which keeps equal rows in their order
sort_values(rows) == stable_sort(rows, SortsBefore)

\* ---------------------------------------------------------------- analyze

\* the rows of the table with the nine rule columns
with_rules(table) ==
    LET norm == Seq1([i \in 1..Len(table.rows) |-> Normalize(table, table.rows[i])])
        cut  == cutoff(norm)
        keys == Seq1([i \in 1..Len(norm) |-> key(norm[i])])
    IN  [i \in 1..Len(norm) |->
            [ entry_id      |-> norm[i].entry_id,
              date          |-> norm[i].date,
              user          |-> norm[i].user,
              account       |-> norm[i].account,
              source        |-> norm[i].source,
              amount        |-> norm[i].amount,
              memo          |-> norm[i].memo,
              round_100     |-> _is_round_multiple(norm[i].amount, 100),
              round_1000    |-> _is_round_multiple(norm[i].amount, 1000),
              cents_zero    |-> cents_zero(norm[i].amount),
              weekend       |-> weekend(norm[i].date),
              late_night    |-> late_night(norm[i].date),
              risky_memo    |-> risky_memo(norm[i].memo),
              manual_source |-> manual_source(norm[i].source),
              top1pct       |-> top1pct(norm[i].amount, cut),
              duplicate     |-> duplicate(keys, i) ]]

\* a row with its score, its reasons and its sort column
with_score(row) ==
    row @@ [ risk_score |-> risk_score(row),
             reasons    |-> reasons(row),
             abs_amount |-> abs_amount(row.amount) ]

analyze(table) ==
    LET flags  == Seq1(with_rules(table))
        scored == Seq1([i \in 1..Len(flags) |-> with_score(flags[i])])
    IN  Seq1(sort_values(scored))

\* ---------------------------------------------------------------- report

\* d["risk_score"] >= 2
RiskThreshold == 2

\* .head(5)
TopN == 5

\* str.split(","): the texts between the commas
RECURSIVE split(_)
split(toks) ==
    IF \E i \in 1..Len(toks) : toks[i] = ","
    THEN LET i == CHOOSE j \in 1..Len(toks) :
                      toks[j] = "," /\ \A k \in (j + 1)..Len(toks) : toks[k] # ","
         IN  split(SubSeq(toks, 1, i - 1)) \o << SubSeq(toks, i + 1, Len(toks)) >>
    ELSE << toks >>

\* risky["reasons"].str.split(",").explode(), over rows lo .. hi
RECURSIVE explode(_, _, _)
explode(rows, lo, hi) ==
    IF lo > hi THEN <<>>
    ELSE IF lo = hi THEN split(rows[lo].reasons)
    ELSE LET mid == (lo + hi) \div 2
         IN  explode(rows, lo, mid) \o explode(rows, mid + 1, hi)

\* the distinct elements of s in the order of their first occurrence
first_seen(s) ==
    LET firsts == {i \in 1..Len(s) : \A j \in 1..(i - 1) : s[j] # s[i]}
        nth(p) == CHOOSE i \in firsts : Cardinality({j \in firsts : j <= i}) = p
    IN  [p \in 1..Cardinality(firsts) |-> s[nth(p)]]

\* the distinct elements of s in ascending order (groupby sorts its keys)
sorted_keys(s) == stable_sort(first_seen(s), StrLess)

\* Series.value_counts() before its sort: <<value, count>> in first-seen order
value_counts(s) ==
    LET ks == Seq1(first_seen(s))
    IN  [i \in 1..Len(ks) |->
            << ks[i], Cardinality({j \in 1..Len(s) : s[j] = ks[i]}) >>]

\* sum of risk_score over the rows lo .. hi whose column col is k
RECURSIVE sum_where(_, _, _, _, _)
sum_where(rows, col, k, lo, hi) ==
    IF lo > hi THEN 0
    ELSE IF lo = hi THEN (IF rows[lo][col] = k THEN rows[lo].risk_score ELSE 0)
    ELSE LET mid == (lo + hi) \div 2
         IN  sum_where(rows, col, k, lo, mid) + sum_where(rows, col, k, mid + 1, hi)

\* risky.groupby(col)["risk_score"].sum(): <<key, sum>> in ascending key order
groupby_sum(rows, col) ==
    LET ks == Seq1(sorted_keys([i \in 1..Len(rows) |-> rows[i][col]]))
    IN  [i \in 1..Len(ks) |-> << ks[i], sum_where(rows, col, ks[i], 1, Len(rows)) >>]

\* Series.sort_values(ascending=False) of <<key, value>> pairs.  pandas
\* reverses the values, sorts them ascending with numpy's default kind and
\* reverses the result; on the short arrays of a report numpy's default kind
\* is an insertion sort, so equal values come out in the order they went in.
\* (The default kind promises nothing about equal values on longer arrays.)
sort_desc(pairs) == stable_sort(pairs, LAMBDA a, b : a[2] > b[2])

head(s, n) == SubSeq(s, 1, IF Len(s) < n THEN Len(s) ELSE n)

\* a variant with a strict threshold: d[d["risk_score"] > 2]
flagged_rows_strict(table) ==
    LET IsRisky(row) == row.risk_score > RiskThreshold
    IN  SelectSeq(table, IsRisky)

\* d[d["risk_score"] >= 2]
flagged_rows(table) ==
    LET IsRisky(row) == row.risk_score >= RiskThreshold
    IN  SelectSeq(table, IsRisky)

\* ---------------------------------------------------------------- inputs

\* cells of the input table
Str(s) == Some(s)
Num(v) == Some([num |-> TRUE, v |-> v])
BadNum == Some([num |-> FALSE, v |-> 0])
Ts(day, hour) == Some([ok |-> TRUE, day |-> day, hour |-> hour])
BadDate == Some([ok |-> FALSE, day |-> 0, hour |-> 0])

AllColumns == TextColumns

\* the sequences over S of length lo .. hi
SeqsOf(S, lo, hi) == UNION {[1..k -> S] : k \in lo..hi}

\* a table whose rows are numbered 1, 2, ... in entry_id
Table(columns, rows) ==
    [ columns |-> columns,
      rows    |-> [i \in 1..Len(rows) |-> [rows[i] EXCEPT !.entry_id = i]] ]

S_x == << "x" >>
S_u == << "u" >>
S_4000 == << "4", "0", "0", "0" >>
S_4001 == << "4", "0", "0", "1" >>
S_4000_bar == << "4", "0", "0", "0", "|", "1", "0", "0", ".", "0", "|" >>
S_bar_100 == << "|", "1", "0", "0", ".", "0", "|" >>
S_plug == << "p", "l", "u", "g" >>
S_PLUG == << "P", "L", "U", "G" >>
S_adj == << "a", "d", "j" >>
S_ScenarioB == << "M", "a", "n", "u", "a", "l", " ", "O", "v", "e", "r", "r", "i", "d", "e", " ", "-", " ", "Q", "3", " ", "A", "D", "J" >>
S_system == << "s", "y", "s", "t", "e", "m" >>
S_manual_entry == << "m", "a", "n", "u", "a", "l", "_", "e", "n", "t", "r", "y" >>
S_empty == <<>>

\* the plain row: a weekday at 10:00, 123.45, memo "x", source "SYSTEM"
PlainRow ==
    [ entry_id |-> 0, date |-> Ts(5, 10), user |-> Str(S_u), account |-> Str(S_4000),
      source |-> Str(SYSTEM), amount |-> Num(123450), memo |-> Str(S_x) ]

\* bounds of the input families
MaxRows == 2
MaxRankRows == 4
MaxReportRows == 7
LargeExtra == 1

\* rows that differ in date and amount
RowsA ==
    {[PlainRow EXCEPT !.date = dt, !.amount = a] :
        dt \in {Null, BadDate, Ts(5, 10), Ts(6, 23)},
        a \in {Null, Num(-300000)}}
    \cup {[PlainRow EXCEPT !.amount = a] :
        a \in {BadNum, Num(0), Num(100000), Num(1000000), Num(123450)}}

\* rows that differ in memo and source
RowsB ==
    {[PlainRow EXCEPT !.memo = m, !.source = src] :
        m \in {Str(S_x), Str(S_ScenarioB)},
        src \in {Str(S_empty), Null, Str(S_system), Str(S_manual_entry), Str(SYSTEM)}}
    \cup {[PlainRow EXCEPT !.memo = Null]}

\* rows that differ in memo alone
RowsBmemo == {[PlainRow EXCEPT !.memo = m] : m \in {Str(S_x), Str(S_ScenarioB), Null}}

\* rows that differ from one row in one part of the duplicate key, and two rows
\* whose account and memo hold the delimiter of the key
KeyRow == [PlainRow EXCEPT !.amount = Num(100000), !.memo = Str(S_plug)]
RowsC ==
    {[KeyRow EXCEPT !.date = dt] : dt \in {Null, Ts(5, 10), Ts(5, 14), Ts(6, 10)}}
    \cup {[KeyRow EXCEPT !.amount = a] : a \in {Null, Num(100004)}}
    \cup {[KeyRow EXCEPT !.account = Str(S_4001)],
          [KeyRow EXCEPT !.memo = Str(S_PLUG)],
          [KeyRow EXCEPT !.user = Str(S_x)],
          [KeyRow EXCEPT !.date = Null, !.amount = Null],
          [KeyRow EXCEPT !.memo = Str(S_bar_100)],
          [KeyRow EXCEPT !.account = Str(S_4000_bar), !.memo = Str(S_empty)]}

\* rows that differ in every row-local rule
RowsD ==
    {[PlainRow EXCEPT !.date = dt, !.amount = a, !.memo = Str(m), !.source = Str(src)] :
        dt \in {Ts(5, 10), Ts(5, 23), Ts(6, 10), Ts(6, 23)},
        a \in {Num(123450), Num(5000), Num(1000000)},
        m \in {S_x, S_adj},
        src \in {SYSTEM, S_manual_entry}}

\* rows with equal and unequal scores and magnitudes
RowsE ==
    {[PlainRow EXCEPT !.amount = a] :
        a \in {Null, Num(123450), Num(-123450), Num(7770), Num(200000)}}

\* the users and accounts of the report family, by row number
ReportUsers == << << "z" >>, << "a" >>, << "y" >>, << "b" >>, << "x" >>, << "c" >>, << "w" >>, << "d" >> >>
ReportAccounts == << << "4", "0" >>, << "1", "0" >>, << "3", "0" >>, << "2", "0" >>, << "6", "0" >>, << "5", "0" >>, << "8", "0" >>, << "7", "0" >> >>

\* row i of a report table: kind 0 is the plain row, kind 1 has a risky memo,
\* kind 2 a risky memo and a manual source; with spread, every row has its own
\* user and account, without it the rows share three of each
ReportRow(i, kind, spread) ==
    LET j == IF spread THEN ((i - 1) % Len(ReportUsers)) + 1 ELSE ((i - 1) % 3) + 1
    IN  [PlainRow EXCEPT
            !.user = Str(ReportUsers[j]),
            !.account = Str(ReportAccounts[IF spread THEN j ELSE 4 - j]),
            !.amount = Num(Units(i) + 450),
            !.memo = Str(IF kind = 0 THEN S_x ELSE S_adj),
            !.source = Str(IF kind = 2 THEN S_manual_entry ELSE SYSTEM)]

ReportTables ==
    {Table(AllColumns, [i \in 1..Len(kinds) |-> ReportRow(i, kinds[i], spread)]) :
        kinds \in SeqsOf(0..2, TopN + 1, MaxReportRows), spread \in BOOLEAN}

\* row i of n of a large table, by the pattern of its amounts
LargePatterns == {"ramp", "flat", "spike", "nulls", "toptie", "negative", "allnull"}
LargeRow(i, n, pattern) ==
    [PlainRow EXCEPT !.amount =
        CASE pattern = "ramp"     -> Num(Units(i))
          [] pattern = "flat"     -> Num(Units(7))
          [] pattern = "spike"    -> IF i = 1 THEN Num(Units(5000)) ELSE Num(Units(1))
          [] pattern = "nulls"    -> IF i % 2 = 0 THEN Null ELSE Num(Units(i))
          [] pattern = "toptie"   -> Num(Units(IF i > n - 2 THEN n ELSE i))
          [] pattern = "negative" -> Num(-Units(i) - 450)
          [] pattern = "allnull"  -> BadNum]

LargeTables ==
    {Table(AllColumns, [i \in 1..n |-> LargeRow(i, n, pattern)]) :
        n \in (SmallBatchLimit - 1)..(SmallBatchLimit + LargeExtra),
        pattern \in LargePatterns}

\* the tables analyze is run on, by family
RuleTables == {Table(AllColumns, rows) : rows \in SeqsOf(RowsA, 0, MaxRows)}

SourceTables ==
    {Table(AllColumns, rows) : rows \in SeqsOf(RowsB, 0, MaxRows)}
    \cup {Table(columns, rows) :
            columns \in {AllColumns \ {"source"}, {}},
            rows \in SeqsOf(RowsBmemo, 0, MaxRows)}

DuplicateTables == {Table(AllColumns, rows) : rows \in SeqsOf(RowsC, 1, MaxRows)}

ComboTables == {Table(AllColumns, [i \in 1..k |-> row]) : row \in RowsD, k \in 1..MaxRows}

RankTables == {Table(AllColumns, rows) : rows \in SeqsOf(RowsE, 1, MaxRankRows)}

\* ---------------------------------------------------------------- program

\* main(): the table is read, analyzed, and the outputs are written
Init ==
    /\ \/ df \in RuleTables
       \/ df \in SourceTables
       \/ df \in DuplicateTables
       \/ df \in ComboTables
       \/ df \in RankTables
       \/ df \in ReportTables
       \/ df \in LargeTables
    /\ d = <<>>
    /\ pc = "analyze"
    /\ risky = <<>>
    /\ total = 0
    /\ flagged = 0
    /\ top_rules = <<>>
    /\ by_user = <<>>
    /\ by_account = <<>>

Analyze ==
    /\ pc = "analyze"
    /\ d' = analyze(df)
    /\ pc' = "write"
    /\ UNCHANGED <<df, risky, total, flagged, top_rules, by_user, by_account>>

\* the three top lists of write_outputs
top_rules_of(rows) ==
    head(sort_desc(Seq1(value_counts(Seq1(explode(rows, 1, Len(rows)))))), TopN)

by_user_of(rows) == head(sort_desc(Seq1(groupby_sum(rows, "user"))), TopN)

by_account_of(rows) == head(sort_desc(Seq1(groupby_sum(rows, "account"))), TopN)

\* a variant without the "if flagged:" guard: on an empty flagged table the
\* reasons column is not a string column and .str raises before anything is
\* written
WriteOutputs_unguarded ==
    /\ pc = "write"
    /\ IF Len(flagged_rows(d)) # 0
       THEN /\ risky' = flagged_rows(d)
            /\ total' = Len(d)
            /\ flagged' = Len(risky')
            /\ top_rules' = top_rules_of(risky')
            /\ by_user' = by_user_of(risky')
            /\ by_account' = by_account_of(risky')
            /\ pc' = "done"
       ELSE /\ pc' = "raised"
            /\ UNCHANGED <<risky, total, flagged, top_rules, by_user, by_account>>
    /\ UNCHANGED <<df, d>>

WriteOutputs ==
    /\ pc = "write"
    /\ risky' = flagged_rows(d)
    /\ total' = Len(d)
    /\ flagged' = Len(risky')
    /\ IF flagged' # 0
       THEN /\ top_rules' = top_rules_of(risky')
            /\ by_user' = by_user_of(risky')
            /\ by_account' = by_account_of(risky')
       ELSE /\ top_rules' = <<>>
            /\ by_user' = <<>>
            /\ by_account' = <<>>
    /\ pc' = "done"
    /\ UNCHANGED <<df, d>>

Next == Analyze \/ WriteOutputs

Spec == Init /\ [][Next]_vars

\* ---------------------------------------------------------------- properties

\* analyze has returned its table
Analyzed == pc # "analyze"

\* the row of the input table that row r of the returned table was made from
InputRow(r) == df.rows[r.entry_id]

\* the weight table and the canonical rule order, as the specification states them
SpecWeight(c) ==
    CASE c = "round_100" -> 1 [] c = "round_1000" -> 2 [] c = "cents_zero" -> 1
      [] c = "weekend" -> 1 [] c = "late_night" -> 2 [] c = "risky_memo" -> 2
      [] c = "manual_source" -> 2 [] c = "duplicate" -> 3 [] c = "top1pct" -> 2

CanonicalOrder ==
    << "round_100", "round_1000", "cents_zero", "weekend", "late_night",
       "risky_memo", "manual_source", "duplicate", "top1pct" >>

RuleNames == {CanonicalOrder[i] : i \in 1..Len(CanonicalOrder)}

CanonicalIndex(c) == CHOOSE i \in 1..Len(CanonicalOrder) : CanonicalOrder[i] = c

\* the sum of the weights of the rules of S, each weight counted as that many marks
WeightOf(S) == Cardinality({<<c, k>> \in S \X (1..3) : k <= SpecWeight(c)})

TrueFlags(r) == {c \in RuleNames : r[c]}

\* C1: in every row of the returned table risk_score is the sum of WEIGHTS over
\* the rules whose flag is true, nothing added, rounded or clamped: it is 0
\* exactly when no flag is true, and never above 16.
C1_ScoreIsWeightSum ==
    Analyzed =>
        \A i \in 1..Len(d) :
            /\ d[i].risk_score = WeightOf(TrueFlags(d[i]))
            /\ (d[i].risk_score = 0) <=> (TrueFlags(d[i]) = {})
            /\ d[i].risk_score <= 16

\* a returned row with all nine flags true, scored 16
C1_Witness ==
    /\ Analyzed
    /\ \E i \in 1..Len(d) : TrueFlags(d[i]) = RuleNames /\ d[i].risk_score = 16

\* C2: in every row of the returned table reasons names a rule exactly when its
\* flag is true, no rule twice, the names in the canonical order, a comma
\* between neighbours.
C2_ReasonsCanonical ==
    Analyzed =>
        \A i \in 1..Len(d) :
            LET toks  == d[i].reasons
                names == {p \in 1..Len(toks) : p % 2 = 1}
            IN  /\ Len(toks) = 0 \/ Len(toks) % 2 = 1
                /\ \A p \in 1..Len(toks) : (p % 2 = 0) => toks[p] = ","
                /\ \A p \in names : toks[p] \in RuleNames
                /\ \A c \in RuleNames : d[i][c] <=> \E p \in names : toks[p] = c
                /\ \A p, q \in names :
                       p < q => CanonicalIndex(toks[p]) < CanonicalIndex(toks[q])

\* a returned row that is not first in the input, with several reasons, among
\* them a batch-wide one after a row-local one
C2_Witness ==
    /\ Analyzed
    /\ \E i \in 1..Len(d) :
           /\ d[i].entry_id > 1
           /\ Len(d[i].reasons) >= 5
           /\ d[i].duplicate /\ d[i].top1pct /\ d[i].weekend

\* the composite identity of a returned row: calendar day, account, amount
\* rounded to two decimals, lowercased memo
Identity(r) ==
    << IF IsNull(r.date) THEN Null ELSE Some(Val(r.date).day),
       r.account,
       IF IsNull(r.amount) THEN Null ELSE Some(round2(Val(r.amount))),
       Lower(r.memo) >>

\* C3: a row is flagged duplicate exactly when another row of the batch has the
\* same composite identity (also when account or memo hold the character "|").
C3_DuplicateLaw ==
    Analyzed =>
        \A i \in 1..Len(d) :
            d[i].duplicate <=>
                \E j \in 1..Len(d) : j # i /\ Identity(d[j]) = Identity(d[i])

\* C4: the returned table is a permutation of the normalized input rows, not
\* increasing in risk_score, within equal risk_score not increasing in
\* abs_amount (|amount|, 0 for a null amount), and rows equal in both are in
\* their input order.
C4_RankingLaw ==
    Analyzed =>
        /\ Len(d) = Len(df.rows)
        /\ \A k \in 1..Len(df.rows) : \E i \in 1..Len(d) : d[i].entry_id = k
        /\ \A i \in 1..Len(d) :
               /\ d[i].amount = to_numeric(InputRow(d[i]).amount)
               /\ d[i].date = to_datetime(InputRow(d[i]).date)
               /\ d[i].abs_amount =
                      (IF IsNull(d[i].amount) THEN 0 ELSE Abs(Val(d[i].amount)))
        /\ \A i, j \in 1..Len(d) :
               i < j =>
                   /\ d[i].risk_score >= d[j].risk_score
                   /\ d[i].risk_score = d[j].risk_score
                          => d[i].abs_amount >= d[j].abs_amount
                   /\ (d[i].risk_score = d[j].risk_score
                       /\ d[i].abs_amount = d[j].abs_amount)
                          => d[i].entry_id < d[j].entry_id

\* a returned table in which the sort moved a row ahead of an earlier input
\* row, once by score and once by magnitude, and kept two equal rows in order
C4_Witness ==
    /\ Analyzed
    /\ \E i, j \in 1..Len(d) :
           /\ i < j
           /\ d[i].risk_score > d[j].risk_score /\ d[i].entry_id > d[j].entry_id
    /\ \E i, j \in 1..Len(d) :
           /\ i < j
           /\ d[i].risk_score = d[j].risk_score
           /\ d[i].abs_amount > d[j].abs_amount /\ d[i].entry_id > d[j].entry_id
    /\ \E i, j \in 1..Len(d) :
           /\ i < j
           /\ d[i].risk_score = d[j].risk_score /\ d[i].abs_amount = d[j].abs_amount

\* the rows of the returned table whose amount is present, and their magnitudes
WithAmount == {i \in 1..Len(d) : ~IsNull(d[i].amount)}
Magnitude(i) == Abs(Val(d[i].amount))

\* order statistic k (from 0) of the magnitudes: a magnitude with at most k
\* magnitudes below it and more than k not above it
OrderStatistic(k) ==
    Magnitude(CHOOSE i \in WithAmount :
        /\ Cardinality({j \in WithAmount : Magnitude(j) < Magnitude(i)}) <= k
        /\ Cardinality({j \in WithAmount : Magnitude(j) <= Magnitude(i)}) > k)

\* 100 times the qpct/100 quantile of the magnitudes, by linear interpolation at
\* rank q * (m - 1); at least one amount is present
Cut100(qpct) ==
    LET rank == qpct * (Cardinality(WithAmount) - 1)
        lo   == rank \div 100
        fr   == rank % 100
    IN  IF fr = 0 THEN 100 * OrderStatistic(lo)
        ELSE (100 - fr) * OrderStatistic(lo) + fr * OrderStatistic(lo + 1)

\* C5: with n the number of rows (null amounts included) and q = 0.99 if
\* n >= 100 else 0.95, a row is flagged top1pct exactly when its amount is
\* present and its magnitude is at least the q-quantile of the magnitudes
\* present, a magnitude equal to the quantile included.
C5_OutlierRule ==
    Analyzed =>
        LET q   == IF Len(d) >= 100 THEN 99 ELSE 95
            cut == Cut100(q)
        IN  \A i \in 1..Len(d) :
                d[i].top1pct <=> (i \in WithAmount /\ 100 * Magnitude(i) >= cut)

\* a returned table of exactly 100 rows, some without amount, where a row is
\* flagged at the 0.99 quantile and another passes the 0.95 quantile unflagged
C5_Witness ==
    /\ Analyzed
    /\ Len(d) = 100
    /\ \E i \in 1..Len(d) : IsNull(d[i].amount)
    /\ \E i \in WithAmount : d[i].top1pct
    /\ \E i \in WithAmount : ~d[i].top1pct /\ 100 * Magnitude(i) >= Cut100(95)

\* the amount cell, the date cell of an input row is missing or does not parse
AmountMissing(raw) == IsNull(raw.amount) \/ ~Val(raw.amount).num
DateMissing(raw) == IsNull(raw.date) \/ ~Val(raw.date).ok

\* C6: a row whose amount is missing or unparsable has round_100, round_1000,
\* cents_zero and top1pct false; a row whose date is missing or unparsable has
\* weekend and late_night false; and analyze returns, whatever is missing, a
\* table with one row for each input row.
C6_NullPropagation ==
    /\ pc \in {"analyze", "write", "done"}
    /\ Analyzed =>
        /\ Len(d) = Len(df.rows)
        /\ \A i \in 1..Len(d) :
            /\ AmountMissing(InputRow(d[i])) =>
                   /\ IsNull(d[i].amount)
                   /\ ~d[i].round_100 /\ ~d[i].round_1000
                   /\ ~d[i].cents_zero /\ ~d[i].top1pct
            /\ DateMissing(InputRow(d[i])) =>
                   /\ IsNull(d[i].date)
                   /\ ~d[i].weekend /\ ~d[i].late_night

\* the outputs are written for a table of several rows in which every amount
\* and every date is missing, one of them unparsable
C6_Witness ==
    /\ pc = "done"
    /\ Len(d) >= 2
    /\ \A i \in 1..Len(d) : AmountMissing(InputRow(d[i])) /\ DateMissing(InputRow(d[i]))
    /\ \E i \in 1..Len(d) : ~IsNull(InputRow(d[i]).date)

\* the source of an input row is empty: the column is absent, the cell is
\* missing, or the cell is the empty string
SourceEmpty(raw) ==
    \/ "source" \notin df.columns
    \/ IsNull(raw.source)
    \/ raw.source = Str(<<>>)

\* C7: a row whose source is empty on input has source "SYSTEM" and
\* manual_source false; in every row manual_source is true exactly when the
\* uppercased source is not "SYSTEM".
C7_SourceNormalization ==
    Analyzed =>
        \A i \in 1..Len(d) :
            /\ SourceEmpty(InputRow(d[i])) =>
                   d[i].source = << "S", "Y", "S", "T", "E", "M" >> /\ ~d[i].manual_source
            /\ d[i].manual_source <=> Upper(d[i].source) # << "S", "Y", "S", "T", "E", "M" >>

\* the rows of the returned table that the report counts as flagged
Flagged == {i \in 1..Len(d) : d[i].risk_score >= 2}

\* element k of a set of numbers, in ascending order
Kth(S, k) == CHOOSE i \in S : Cardinality({j \in S : j <= i}) = k

\* occurrences of rule name c in the reasons of the flagged rows
RuleCount(c) ==
    Cardinality({<<k, p>> \in (1..Len(risky)) \X (1..17) :
                    p <= Len(risky[k].reasons) /\ risky[k].reasons[p] = c})

\* sum of risk_score over the flagged rows whose column col is key
GroupSum(col, g) ==
    Cardinality({<<k, u>> \in (1..Len(risky)) \X (1..16) :
                    risky[k][col] = g /\ u <= risky[k].risk_score})

\* a top list: at most 5 entries, one per key, each with the key's aggregate,
\* in descending order, and no key left out has more than a key listed
TopListOk(L, Keys, Agg(_)) ==
    /\ Len(L) = (IF Cardinality(Keys) < 5 THEN Cardinality(Keys) ELSE 5)
    /\ \A p \in 1..Len(L) : L[p][1] \in Keys /\ L[p][2] = Agg(L[p][1])
    /\ \A p, q \in 1..Len(L) : p < q => L[p][1] # L[q][1] /\ L[p][2] >= L[q][2]
    /\ \A k \in Keys :
           (\A p \in 1..Len(L) : L[p][1] # k) => \A p \in 1..Len(L) : L[p][2] >= Agg(k)

RuleKeys == {<<c>> : c \in {n \in RuleNames : RuleCount(n) > 0}}
RuleAgg(k) == RuleCount(k[1])
UserKeys == {risky[k].user : k \in 1..Len(risky)}
UserAgg(k) == GroupSum("user", k)
AccountKeys == {risky[k].account : k \in 1..Len(risky)}
AccountAgg(k) == GroupSum("account", k)

\* the flagged table is the rows scored 2 or more, in table order, and the
\* three lists are top lists of their aggregates
ReportOk ==
    /\ total = Len(d)
    /\ flagged = Cardinality(Flagged)
    /\ Len(risky) = flagged
    /\ \A k \in 1..Len(risky) : risky[k] = d[Kth(Flagged, k)]
    /\ TopListOk(top_rules, RuleKeys, RuleAgg)
    /\ TopListOk(by_user, UserKeys, UserAgg)
    /\ TopListOk(by_account, AccountKeys, AccountAgg)

\* where a key is first met in the flagged table: the first row that holds it
\* and, for a rule name, its place in that row's reasons
FirstRow(col, g) == CHOOSE k \in 1..Len(risky) :
    risky[k][col] = g /\ \A j \in 1..(k - 1) : risky[j][col] # g
FirstMention(c) ==
    LET k == CHOOSE r \in 1..Len(risky) :
                 risky[r][c] /\ \A j \in 1..(r - 1) : ~risky[j][c]
    IN  20 * k + CanonicalIndex(c)

\* entries of a list with equal aggregates are in the order of first encounter
TiesByFirst(L, First(_)) ==
    \A p, q \in 1..Len(L) : (p < q /\ L[p][2] = L[q][2]) => First(L[p][1]) < First(L[q][1])

FirstRuleKey(k) == FirstMention(k[1])
FirstUser(k) == FirstRow("user", k)
FirstAccount(k) == FirstRow("account", k)

\* C8 (as claimed): the flagged set is the rows scored 2 or more and each top
\* list holds the 5 largest aggregates in descending order, entries with equal
\* aggregates in the order they were first encountered in the flagged table.
C8_TiesByFirstEncounter ==
    pc = "done" =>
        /\ ReportOk
        /\ TiesByFirst(top_rules, FirstRuleKey)
        /\ TiesByFirst(by_user, FirstUser)
        /\ TiesByFirst(by_account, FirstAccount)

\* C8 (amended): the flagged set is the rows scored 2 or more and each top list
\* has at most 5 entries, in descending order of the aggregate, no key left
\* out having a larger aggregate than a key listed (nothing is said of the
\* order of entries with equal aggregates).
C8_ReportTopLists == pc = "done" => ReportOk

\* a report over more than five flagged users, some rows not flagged, with two
\* users of equal sum listed and one user left out
C8_Witness ==
    /\ pc = "done"
    /\ 0 < flagged /\ flagged < total
    /\ Cardinality(UserKeys) > 5
    /\ Len(by_user) = 5
    /\ \E p, q \in 1..Len(by_user) : p < q /\ by_user[p][2] = by_user[q][2]
    /\ by_user[1][2] > by_user[5][2]

\* C9: on a table of zero rows analyze and then write_outputs run to their end,
\* with an empty flagged table, 0 rows scanned, 0 rows flagged and three empty
\* top lists.
C9_EmptyBatch ==
    Len(df.rows) = 0 =>
        /\ pc \in {"analyze", "write", "done"}
        /\ pc = "analyze" => ENABLED Analyze
        /\ pc = "write" => d = <<>> /\ ENABLED WriteOutputs
        /\ pc = "done" =>
               /\ d = <<>> /\ risky = <<>>
               /\ total = 0 /\ flagged = 0
               /\ top_rules = <<>> /\ by_user = <<>> /\ by_account = <<>>

\* the outputs are written for a table of zero rows
C9_Witness == pc = "done" /\ Len(df.rows) = 0 /\ total = 0

\* C10: round_100 is true exactly when the row's amount is present and its
\* magnitude is a multiple of 100, whatever the other rows and flags; the
\* amount 0.00 has round_100, round_1000 and cents_zero all true.
C10_Round100 ==
    Analyzed =>
        \A i \in 1..Len(d) :
            LET cell == InputRow(d[i]).amount
            IN  /\ d[i].round_100 <=>
                       (~AmountMissing(InputRow(d[i])) /\ Abs(Val(cell).v) % 100000 = 0)
                /\ (~AmountMissing(InputRow(d[i])) /\ Val(cell).v = 0) =>
                       d[i].round_100 /\ d[i].round_1000 /\ d[i].cents_zero

\* a returned table with the amount 0.00, all three flags true, and a negative
\* multiple of 100 with round_100 true
C10_Witness ==
    /\ Analyzed
    /\ \E i \in 1..Len(d) :
           /\ d[i].amount = Some(0)
           /\ d[i].round_100 /\ d[i].round_1000 /\ d[i].cents_zero
    /\ \E i \in 1..Len(d) :
           ~IsNull(d[i].amount) /\ Val(d[i].amount) < 0 /\ d[i].round_100

====
